---- MODULE Spec2Model ----
(***************************************************************************)
(* State-machine model of ansible/playbooks/oled_monitor.py: the metrics   *)
(* cache (DataStore), the line Scroller and the render loop (main) with    *)
(* its background refresh thread.                                          *)
(*                                                                         *)
(* A text is a sequence of string fragments (the pieces an f-string joins);*)
(* the empty string is << >>.  Time is counted in tenths of a second.      *)
(***************************************************************************)
EXTENDS Integers, Sequences, FiniteSets, TLC

\* ------------------------------------------------------------------------
\* Configuration (oled_monitor.py, lines 29-37)
\* ------------------------------------------------------------------------
PAGE_FLIP_SEC == 5
DISPLAY_W == 128
SCROLL_SPEED == 1
SCROLL_GAP == 28
DISPLAY_H == 64
LINE_HEIGHT == 14

\* Fixed Y positions
Y_LINE1 == 1
Y_LINE2 == Y_LINE1 + LINE_HEIGHT

Y_DIVIDER_Tight == Y_LINE2 + LINE_HEIGHT - 1

Y_DIVIDER == Y_LINE2 + LINE_HEIGHT + 1
Y_LINE3 == Y_DIVIDER + 3
Y_LINE4 == Y_LINE3 + LINE_HEIGHT

\* Bounds of the model
MaxFrames == 3
MaxRefresh == 2

\* ------------------------------------------------------------------------
\* Fonts and text measurement
\* ------------------------------------------------------------------------
Fonts == {"font", "font_bold"}

\* Horizontal advance of one glyph of the two monospace faces, in pixels.
GlyphAdvance(f) == IF f = "font_bold" THEN 8 ELSE 7

\* Number of glyphs of a fragment.
FragLen(s) ==
  CASE s = "IP:" -> 3
    [] s = "No IP" -> 5
    [] s = "192.168.1.150" -> 13
    [] s = "192.168.10.150" -> 14
    [] s = "pi" -> 2
    [] s = "  " -> 2
    [] s \in {"2GB", "4GB", "8GB"} -> 3
    [] s = "CPU:" -> 4
    [] s = "12" -> 2
    [] s = "%  T:" -> 5
    [] s \in {"45.0", "48.0"} -> 4
    [] s = "0.0" -> 3
    [] s = "C" -> 1
    [] s = "Net:" -> 4
    [] s \in {"eth0", "usb0", "None"} -> 4
    [] s = "&" -> 1
    [] s = " [" -> 2
    [] s = "UP" -> 2
    [] s = "DOWN" -> 4
    [] s = "]" -> 1
    [] s = "Disk:12.3/59GB 21%" -> 18
    [] s = "Time:" -> 5
    [] OTHER -> 8

RECURSIVE GlyphCount(_)
GlyphCount(text) ==
  IF text = << >> THEN 0 ELSE FragLen(Head(text)) + GlyphCount(Tail(text))

\* f.getbbox(text): <<left, top, right, bottom>>
getbbox(text, f) == <<0, 0, GlyphCount(text) * GlyphAdvance(f), 11>>

text_px_width(text, f) == getbbox(text, f)[3] - getbbox(text, f)[1]

\* ------------------------------------------------------------------------
\* Scroller
\* ------------------------------------------------------------------------
ScrollerNew ==
  [offset |-> 0, text |-> << >>, font |-> "font", width |-> 0,
   scrolling |-> FALSE]

set_Always(s, text, f) ==
  LET ff == IF f = "None" THEN "font" ELSE f
  IN  [offset |-> 0, text |-> text, font |-> ff,
       width |-> text_px_width(text, ff),
       scrolling |-> text_px_width(text, ff) > DISPLAY_W]

set_TextOnly(s, text, f) ==
  LET ff == IF f = "None" THEN "font" ELSE f
  IN  IF text # s.text
      THEN [offset |-> 0, text |-> text, font |-> ff,
            width |-> text_px_width(text, ff),
            scrolling |-> text_px_width(text, ff) > DISPLAY_W]
      ELSE s

set_Inclusive(s, text, f) ==
  LET ff == IF f = "None" THEN "font" ELSE f
  IN  IF text # s.text \/ ff # s.font
      THEN [offset |-> 0, text |-> text, font |-> ff,
            width |-> text_px_width(text, ff),
            scrolling |-> text_px_width(text, ff) >= DISPLAY_W]
      ELSE s

set(s, text, f) ==
  LET ff == IF f = "None" THEN "font" ELSE f
  IN  IF text # s.text \/ ff # s.font
      THEN [offset |-> 0, text |-> text, font |-> ff,
            width |-> text_px_width(text, ff),
            scrolling |-> text_px_width(text, ff) > DISPLAY_W]
      ELSE s

reset(s) == [s EXCEPT !.offset = 0]

tick_LateWrap(s) ==
  IF s.scrolling
  THEN LET o == s.offset + SCROLL_SPEED
       IN  [s EXCEPT !.offset = IF o > s.width + SCROLL_GAP THEN 0 ELSE o]
  ELSE s

tick_NoGap(s) ==
  IF s.scrolling
  THEN LET o == s.offset + SCROLL_SPEED
       IN  [s EXCEPT !.offset = IF o >= s.width THEN 0 ELSE o]
  ELSE s

tick(s) ==
  IF s.scrolling
  THEN LET o == s.offset + SCROLL_SPEED
       IN  [s EXCEPT !.offset = IF o >= s.width + SCROLL_GAP THEN 0 ELSE o]
  ELSE s

\* A pixel column of a drawn strip is named by the column of the text's own
\* picture it shows (0 .. width - 1), or Blank where nothing is drawn.
Blank == 0 - 1

\* tdraw.text((x0, 0), text): the text covers columns x0 .. x0 + width - 1.
TextAt(s, x0, c) == IF c - x0 \in 0..(s.width - 1) THEN c - x0 ELSE Blank

Band_SingleCopy(s, c) ==
  LET loop_w == s.width + SCROLL_GAP
  IN  IF c \notin 0..(loop_w * 2 - 1) THEN Blank ELSE TextAt(s, 0, c)

\* Column c of the temporary image of a scrolling line: loop_w * 2 wide, the
\* text drawn at 0 and at loop_w. Columns outside the image crop to black.
Band(s, c) ==
  LET loop_w == s.width + SCROLL_GAP
  IN  IF c \notin 0..(loop_w * 2 - 1) THEN Blank
      ELSE IF TextAt(s, loop_w, c) # Blank THEN TextAt(s, loop_w, c)
      ELSE TextAt(s, 0, c)

\* The DISPLAY_W columns draw_onto pastes into the line's band of the frame.
draw_onto(s) ==
  [x \in 0..(DISPLAY_W - 1) |->
     IF ~s.scrolling
     THEN TextAt(s, 0, x)
     ELSE Band(s, s.offset + x)]

\* ------------------------------------------------------------------------
\* System info: the collectors, as functions of what the host answers
\* ------------------------------------------------------------------------
Keys == {"ip", "hostname", "ram", "cpu", "network", "disk"}

\* The order in which dict.update writes the keys of `new`.
KeyOrder == <<"ip", "hostname", "ram", "cpu", "network", "disk">>

\* The result of a collector whose exception propagates to its caller.
RAISE == <<"Traceback">>

\* What the host answers to the calls of the collectors; "ERR" is a call
\* that raises.
Good ==
  [sock |-> "192.168.10.150", host |-> "pi", mem |-> "ok", memGB |-> 4,
   pct |-> "12", thermal |-> "45.0", sensors |-> "none",
   connect |-> "ok", stats |-> "ok", ifaces |-> <<"eth0", "usb0">>,
   disk |-> "Disk:12.3/59GB 21%"]

Offline == [Good EXCEPT !.sock = "ERR", !.connect = "ERR"]
NoThermal == [Good EXCEPT !.thermal = "ERR"]
HostErr == [Good EXCEPT !.host = "ERR"]
MemErr == [Good EXCEPT !.mem = "ERR"]
PctErr == [Good EXCEPT !.pct = "ERR"]
SensorsErr == [Good EXCEPT !.thermal = "ERR", !.sensors = "ERR"]
StatsErr == [Good EXCEPT !.stats = "ERR"]
DiskErr == [Good EXCEPT !.disk = "ERR"]

\* The hosts the initial refresh may meet: one failing call per collector.
Hosts ==
  {Good, Offline, NoThermal, HostErr, MemErr, PctErr, SensorsErr, StatsErr,
   DiskErr}

\* The hosts a periodic refresh may meet: the link has gone down, or a
\* collector raises.
LaterHosts == {Offline, DiskErr}

get_ip(e) == IF e.sock = "ERR" THEN <<"No IP">> ELSE <<e.sock>>

get_hostname(e) == IF e.host = "ERR" THEN RAISE ELSE <<e.host>>

get_ram_label(e) ==
  IF e.mem = "ERR" THEN RAISE
  ELSE IF e.memGB < 3 THEN <<"2GB">>
  ELSE IF e.memGB < 6 THEN <<"4GB">>
  ELSE <<"8GB">>

get_cpu(e) ==
  IF e.pct = "ERR" THEN RAISE
  ELSE IF e.thermal # "ERR" THEN <<"CPU:", e.pct, "%  T:", e.thermal, "C">>
  ELSE IF e.sensors = "ERR" THEN RAISE
  ELSE IF e.sensors = "none" THEN <<"CPU:", e.pct, "%  T:", "0.0", "C">>
  ELSE <<"CPU:", e.pct, "%  T:", e.sensors, "C">>

RECURSIVE JoinAmp(_)
JoinAmp(names) ==
  IF names = << >> THEN << >>
  ELSE IF Len(names) = 1 THEN names
  ELSE <<Head(names), "&">> \o JoinAmp(Tail(names))

get_network(e) ==
  IF e.stats = "ERR" THEN RAISE
  ELSE <<"Net:">>
       \o (IF e.ifaces = << >> THEN <<"None">> ELSE JoinAmp(e.ifaces))
       \o <<" [", IF e.connect = "ok" THEN "UP" ELSE "DOWN", "]">>

get_disk(e) == IF e.disk = "ERR" THEN RAISE ELSE <<e.disk>>

\* strftime("%H:%M:%S") of the clock's whole seconds
ClockFace ==
  <<"00:00:00", "00:00:01", "00:00:02", "00:00:03", "00:00:04", "00:00:05",
    "00:00:06", "00:00:07", "00:00:08", "00:00:09", "00:00:10", "00:00:11">>

get_time(t) == <<"Time:", ClockFace[(t \div 10) + 1]>>

\* The dict literal of DataStore.refresh: every collector's result.
Collect(e) ==
  [k \in Keys |->
     CASE k = "ip" -> get_ip(e)
       [] k = "hostname" -> get_hostname(e)
       [] k = "ram" -> get_ram_label(e)
       [] k = "cpu" -> get_cpu(e)
       [] k = "network" -> get_network(e)
       [] k = "disk" -> get_disk(e)]

Raises(e) == \E k \in Keys : Collect(e)[k] = RAISE

\* ------------------------------------------------------------------------
\* State
\* ------------------------------------------------------------------------
VARIABLES
  scr,       \* a Scroller driven by arbitrary calls
  prev,      \* history: scr before the last call
  op,        \* history: the last call on scr, with its arguments
  run,       \* history: tick() calls since the offset of scr was last put to 0
  lastLoop,  \* history: tick() calls the last completed loop of scr took (0: none)
  now,       \* the wall clock, in tenths of a second
  mpc,       \* position of the main thread
  bpc,       \* position of the background_refresh thread
  lock,      \* holder of DataStore._lock: "free", "main" or "bg"
  data,      \* DataStore._data
  new,       \* the dict `new` of the refresh in progress
  upd,       \* index in KeyOrder of the next key dict.update writes
  s,         \* the four Scrollers s1..s4 of main
  page,      \* main's `page`
  last_page, \* main's `last_page`
  host,      \* the hostname read for line 2, before the ram label is read
  frame,     \* the frame last handed to device.display
  cleared,   \* device.clear() has been called
  frames,    \* number of frames displayed
  refreshes, \* number of periodic refreshes started
  ver,       \* history: per key, the number of the update that stored it
  committed, \* history: number of updates of the stored map completed
  obs,       \* history: what the render loop's last get observed
  tried,     \* history: the last periodic refresh: host answers and outcome
  atWake,    \* history: DataStore._data when the last periodic refresh began
  readAt,    \* history: the clock value the last tick computed its page from
  seen       \* history: the update numbers the two gets of line 2 read

scrVars == <<scr, prev, op, run, lastLoop>>

clockVars == <<now>>

storeVars == <<lock, data, ver, committed>>

bgVars == <<bpc, new, upd, refreshes, tried, atWake>>

loopVars ==
  <<mpc, s, page, last_page, host, frame, cleared, frames, obs, readAt, seen>>

mainVars == <<clockVars, storeVars, bgVars, loopVars>>

vars == <<scrVars, mainVars>>

\* Texts and fonts a caller hands to Scroller.set
SetTexts ==
  { << >>,
    <<"IP:", "No IP">>,
    <<"IP:", "192.168.1.150">>,
    <<"IP:", "192.168.10.150">>,
    <<"Net:", "eth0", "&", "usb0", " [", "DOWN", "]">> }

SetFonts == Fonts \cup {"None"}

ScrInit ==
  /\ scr = ScrollerNew
  /\ prev = ScrollerNew
  /\ op = [name |-> "new", text |-> << >>, font |-> "font"]
  /\ run = 0
  /\ lastLoop = 0

ScrSet ==
  \E text \in SetTexts, f \in SetFonts :
    /\ scr' = set(scr, text, f)
    /\ prev' = scr
    /\ op' = [name |-> "set", text |-> text,
              font |-> IF f = "None" THEN "font" ELSE f]
    /\ run' = IF scr' = scr THEN run ELSE 0
    /\ lastLoop' = IF scr' = scr THEN lastLoop ELSE 0
    /\ UNCHANGED mainVars

ScrReset ==
  /\ scr' = reset(scr)
  /\ prev' = scr
  /\ op' = [name |-> "reset", text |-> << >>, font |-> "font"]
  /\ run' = 0
  /\ lastLoop' = lastLoop
  /\ UNCHANGED mainVars

ScrTick ==
  /\ scr' = tick(scr)
  /\ prev' = scr
  /\ op' = [name |-> "tick", text |-> << >>, font |-> "font"]
  /\ run' = IF scr'.offset = 0 THEN 0 ELSE run + 1
  /\ lastLoop' = IF scr.scrolling /\ scr'.offset = 0 THEN run + 1 ELSE lastLoop
  /\ UNCHANGED mainVars

ScrNext == ScrSet \/ ScrReset \/ ScrTick

\* ------------------------------------------------------------------------
\* The wall clock
\* ------------------------------------------------------------------------
\* The process is running: it has neither died of an exception nor exited.
Alive == mpc \notin {"crashed", "killed", "exited", "failed"}

\* The instants at which the clock is read (tenths of a second).
Instants == {49, 51, 101}

Advance ==
  /\ Alive
  /\ \E t \in Instants : t > now /\ now' = t
  /\ UNCHANGED <<scrVars, storeVars, bgVars, loopVars>>

\* ------------------------------------------------------------------------
\* DataStore
\* ------------------------------------------------------------------------
EmptyDict == [k \in {} |-> << >>]

NoVersions == [k \in {} |-> 0]

\* dict.update, one key
Put(d, k, v) == [x \in (DOMAIN d) \cup {k} |-> IF x = k THEN v ELSE d[x]]

\* DataStore.get, with the lock held
DataGet(key) == IF key \in DOMAIN data THEN data[key] ELSE << >>

\* The stored map holds keys of different refreshes.
Torn == \E k1 \in DOMAIN ver, k2 \in DOMAIN ver : ver[k1] # ver[k2]

Refreshing == bpc \in {"collect", "acquire", "update", "release"}

\* What a get of `key` sees: `settled` when the value it returns was stored
\* by the last refresh whose update has completed.
Observe(key) ==
  [n |-> 1, key |-> key, missing |-> key \notin DOMAIN data, torn |-> Torn,
   during |-> Refreshing,
   settled |-> key \in DOMAIN ver /\ ver[key] = committed]

\* The number of the update that stored the value a get of `key` returns.
VerOf(key) == IF key \in DOMAIN ver THEN ver[key] ELSE 0

NoObs ==
  [n |-> 0, key |-> "ip", missing |-> FALSE, torn |-> FALSE, during |-> FALSE,
   settled |-> FALSE]

\* store = DataStore(): the initial refresh, on the main thread, before any
\* other thread exists.
Construct_NoRefresh ==
  /\ mpc = "construct"
  /\ mpc' = "setup"
  /\ UNCHANGED <<scrVars, clockVars, storeVars, bgVars, s, page, last_page,
                 host, frame, cleared, frames, obs, readAt, seen>>

Construct ==
  /\ mpc = "construct"
  /\ \E e \in Hosts :
       IF Raises(e)
       THEN /\ mpc' = "crashed"
            /\ UNCHANGED <<data, ver, committed>>
       ELSE /\ mpc' = "setup"
            /\ data' = [k \in (DOMAIN data) \cup Keys |-> Collect(e)[k]]
            /\ ver' = [k \in Keys |-> 1]
            /\ committed' = 1
  /\ UNCHANGED <<scrVars, clockVars, lock, bgVars, s, page, last_page, host,
                 frame, cleared, frames, obs, readAt, seen>>

\* ------------------------------------------------------------------------
\* background_refresh
\* ------------------------------------------------------------------------
\* `retry`: the periodic refresh before this one raised.
NotTried == [host |-> Good, outcome |-> "none", retry |-> FALSE]

BgWake_LockFirst ==
  /\ Alive
  /\ bpc = "sleep"
  /\ refreshes < MaxRefresh
  /\ lock = "free"
  /\ lock' = "bg"
  /\ bpc' = "collect"
  /\ refreshes' = refreshes + 1
  /\ atWake' = data
  /\ UNCHANGED <<scrVars, clockVars, loopVars, data, ver, committed, new, upd,
                 tried>>

\* time.sleep(3) returns
BgWake ==
  /\ Alive
  /\ bpc = "sleep"
  /\ refreshes < MaxRefresh
  /\ bpc' = "collect"
  /\ refreshes' = refreshes + 1
  /\ atWake' = data
  /\ UNCHANGED <<scrVars, clockVars, storeVars, loopVars, new, upd, tried>>

\* The collectors run, without the lock; an exception leaves refresh and is
\* caught by background_refresh, which prints it and sleeps again.
BgCollect_Uncaught ==
  /\ Alive
  /\ bpc = "collect"
  /\ \E e \in LaterHosts :
       IF Raises(e)
       THEN /\ bpc' = "dead"
            /\ tried' = [host |-> e, outcome |-> "raised",
                         retry |-> tried.outcome = "raised"]
            /\ UNCHANGED new
       ELSE /\ bpc' = "acquire"
            /\ new' = Collect(e)
            /\ tried' = [host |-> e, outcome |-> "collected",
                         retry |-> tried.outcome = "raised"]
  /\ UNCHANGED <<scrVars, clockVars, storeVars, loopVars, upd, refreshes,
                 atWake>>

BgCollect ==
  /\ Alive
  /\ bpc = "collect"
  /\ \E e \in LaterHosts :
       IF Raises(e)
       THEN /\ bpc' = "sleep"
            /\ tried' = [host |-> e, outcome |-> "raised",
                         retry |-> tried.outcome = "raised"]
            /\ UNCHANGED new
       ELSE /\ bpc' = "acquire"
            /\ new' = Collect(e)
            /\ tried' = [host |-> e, outcome |-> "collected",
                         retry |-> tried.outcome = "raised"]
  /\ UNCHANGED <<scrVars, clockVars, storeVars, loopVars, upd, refreshes,
                 atWake>>

\* with self._lock:
BgAcquire_NoLock ==
  /\ Alive
  /\ bpc = "acquire"
  /\ bpc' = "update"
  /\ upd' = 1
  /\ UNCHANGED <<scrVars, clockVars, storeVars, loopVars, new, refreshes,
                 tried, atWake>>

BgAcquire ==
  /\ Alive
  /\ bpc = "acquire"
  /\ lock = "free"
  /\ lock' = "bg"
  /\ bpc' = "update"
  /\ upd' = 1
  /\ UNCHANGED <<scrVars, clockVars, loopVars, data, ver, committed, new,
                 refreshes, tried, atWake>>

\* self._data.update(new), key by key
BgUpdate ==
  /\ Alive
  /\ bpc = "update"
  /\ data' = Put(data, KeyOrder[upd], new[KeyOrder[upd]])
  /\ ver' = Put(ver, KeyOrder[upd], committed + 1)
  /\ upd' = upd + 1
  /\ bpc' = IF upd = Len(KeyOrder) THEN "release" ELSE "update"
  /\ UNCHANGED <<scrVars, clockVars, loopVars, lock, committed, new,
                 refreshes, tried, atWake>>

\* the with block ends; refresh returns
BgRelease ==
  /\ Alive
  /\ bpc = "release"
  /\ lock' = "free"
  /\ committed' = committed + 1
  /\ bpc' = "sleep"
  /\ new' = EmptyDict
  /\ tried' = [tried EXCEPT !.outcome = "stored"]
  /\ UNCHANGED <<scrVars, clockVars, loopVars, data, ver, upd, refreshes,
                 atWake>>

\* ------------------------------------------------------------------------
\* main
\* ------------------------------------------------------------------------
PageOf_Round(t) == ((t + (PAGE_FLIP_SEC * 5)) \div (PAGE_FLIP_SEC * 10)) % 2

PageOf(t) == (t \div (PAGE_FLIP_SEC * 10)) % 2

\* The frame image, row by row. Each row has two zones: "corner", the
\* columns DISPLAY_W - 13 .. DISPLAY_W - 3 the page dots are drawn in, and
\* "body", the other columns. A zone is named by what was drawn there last.
Rows == 0..(DISPLAY_H - 1)

Zones == {"body", "corner"}

\* Image.new("1", (DISPLAY_W, DISPLAY_H), 0)
NewImage == [r \in Rows |-> [z \in Zones |-> "black"]]

\* image.paste(strip, (0, y)) of draw_onto: a strip DISPLAY_W wide and
\* max_height rows tall replaces the rows it covers.
Paste(img, y, tag) ==
  [r \in Rows |->
     IF r \in y..(y + LINE_HEIGHT - 1)
     THEN [z \in Zones |-> tag]
     ELSE img[r]]

\* draw.line([(0, y), (DISPLAY_W, y)], fill=255)
Line(img, y) ==
  [r \in Rows |-> IF r = y THEN [z \in Zones |-> "divider"] ELSE img[r]]

\* the two draw.ellipse calls: rows dot_y .. dot_y + 4 of the corner
Ellipses(img) ==
  LET dot_y == DISPLAY_H - 5
  IN  [r \in Rows |->
         IF r \in dot_y..(dot_y + 4)
         THEN [img[r] EXCEPT !["corner"] = "dots"]
         ELSE img[r]]

\* The image of a tick: the four lines, then the divider, then the dots.
\* Which rows and zones each drawing step covers does not depend on the
\* texts, so every frame handed to device.display has this layout.
Compose ==
  Ellipses(
    Line(
      Paste(Paste(Paste(Paste(NewImage, Y_LINE1, "s1"), Y_LINE2, "s2"),
                  Y_LINE3, "s3"),
            Y_LINE4, "s4"),
      Y_DIVIDER))

NoFrame ==
  [page |-> -1, flipped |-> FALSE, lines |-> [i \in 1..4 |-> ScrollerNew]]

LoopPcs == {"page", "line1", "line2h", "line2r", "line3", "line4", "render"}

\* device set up, the four Scrollers made, the refresh thread started
Setup ==
  /\ mpc = "setup"
  /\ s' = [i \in 1..4 |-> ScrollerNew]
  /\ last_page' = -1
  /\ bpc' = "sleep"
  /\ mpc' = "page"
  /\ UNCHANGED <<scrVars, clockVars, storeVars, new, upd, refreshes, tried,
                 atWake, page, host, frame, cleared, frames, obs, readAt, seen>>

\* page = int(time.time() / PAGE_FLIP_SEC) % 2, and the reset on a flip
MainPage_ResetAll ==
  /\ mpc = "page"
  /\ page' = PageOf(now)
  /\ s' = IF PageOf(now) # last_page
          THEN [i \in 1..4 |-> reset(s[i])]
          ELSE s
  /\ last_page' = PageOf(now)
  /\ readAt' = now
  /\ mpc' = "line1"
  /\ UNCHANGED <<scrVars, clockVars, storeVars, bgVars, host, frame, cleared,
                 frames, obs, seen>>

MainPage_StaleLastPage ==
  /\ mpc = "page"
  /\ page' = PageOf(now)
  /\ s' = IF PageOf(now) # last_page
          THEN [s EXCEPT ![3] = reset(s[3]), ![4] = reset(s[4])]
          ELSE s
  /\ readAt' = now
  /\ mpc' = "line1"
  /\ UNCHANGED <<scrVars, clockVars, storeVars, bgVars, host, frame, cleared,
                 frames, obs, last_page, seen>>

MainPage ==
  /\ mpc = "page"
  /\ page' = PageOf(now)
  /\ s' = IF PageOf(now) # last_page
          THEN [s EXCEPT ![3] = reset(s[3]), ![4] = reset(s[4])]
          ELSE s
  /\ last_page' = PageOf(now)
  /\ readAt' = now
  /\ mpc' = "line1"
  /\ UNCHANGED <<scrVars, clockVars, storeVars, bgVars, host, frame, cleared,
                 frames, obs, seen>>

\* s1.set(f"IP:{store.get('ip')}", font_bold)
MainLine1 ==
  /\ mpc = "line1"
  /\ lock = "free"
  /\ s' = [s EXCEPT ![1] = set(s[1], <<"IP:">> \o DataGet("ip"), "font_bold")]
  /\ obs' = Observe("ip")
  /\ mpc' = "line2h"
  /\ UNCHANGED <<scrVars, clockVars, storeVars, bgVars, page, last_page, host,
                 frame, cleared, frames, readAt, seen>>

\* store.get('hostname'), the first get of line 2
MainLine2Host ==
  /\ mpc = "line2h"
  /\ lock = "free"
  /\ host' = DataGet("hostname")
  /\ obs' = Observe("hostname")
  /\ seen' = <<VerOf("hostname"), 0>>
  /\ mpc' = "line2r"
  /\ UNCHANGED <<scrVars, clockVars, storeVars, bgVars, s, page, last_page,
                 frame, cleared, frames, readAt>>

MainLine2Ram_Unlocked ==
  /\ mpc = "line2r"
  /\ s' = [s EXCEPT ![2] = set(s[2], host \o <<"  ">> \o DataGet("ram"), "font")]
  /\ obs' = Observe("ram")
  /\ seen' = <<seen[1], VerOf("ram")>>
  /\ host' = << >>
  /\ mpc' = "line3"
  /\ UNCHANGED <<scrVars, clockVars, storeVars, bgVars, page, last_page, frame,
                 cleared, frames, readAt>>

\* s2.set(f"{...hostname}  {store.get('ram')}", font)
MainLine2Ram ==
  /\ mpc = "line2r"
  /\ lock = "free"
  /\ s' = [s EXCEPT ![2] = set(s[2], host \o <<"  ">> \o DataGet("ram"), "font")]
  /\ obs' = Observe("ram")
  /\ seen' = <<seen[1], VerOf("ram")>>
  /\ host' = << >>
  /\ mpc' = "line3"
  /\ UNCHANGED <<scrVars, clockVars, storeVars, bgVars, page, last_page, frame,
                 cleared, frames, readAt>>

\* s3.set(store.get("cpu" | "disk"), font)
MainLine3 ==
  /\ mpc = "line3"
  /\ lock = "free"
  /\ LET key == IF page = 0 THEN "cpu" ELSE "disk"
     IN  /\ s' = [s EXCEPT ![3] = set(s[3], DataGet(key), "font")]
         /\ obs' = Observe(key)
         /\ seen' = <<0, 0>>
  /\ mpc' = "line4"
  /\ UNCHANGED <<scrVars, clockVars, storeVars, bgVars, page, last_page, host,
                 frame, cleared, frames, readAt>>

MainLine4_PageClock ==
  /\ mpc = "line4"
  /\ IF page = 0
     THEN /\ lock = "free"
          /\ s' = [s EXCEPT ![4] = set(s[4], DataGet("network"), "font")]
          /\ obs' = Observe("network")
     ELSE /\ s' = [s EXCEPT ![4] = set(s[4], get_time(readAt), "font")]
          /\ UNCHANGED obs
  /\ mpc' = "render"
  /\ UNCHANGED <<scrVars, clockVars, storeVars, bgVars, page, last_page, host,
                 frame, cleared, frames, readAt, seen>>

\* s4.set(store.get("network"), font) or s4.set(get_time(), font)
MainLine4 ==
  /\ mpc = "line4"
  /\ IF page = 0
     THEN /\ lock = "free"
          /\ s' = [s EXCEPT ![4] = set(s[4], DataGet("network"), "font")]
          /\ obs' = Observe("network")
     ELSE /\ s' = [s EXCEPT ![4] = set(s[4], get_time(now), "font")]
          /\ UNCHANGED obs
  /\ mpc' = "render"
  /\ UNCHANGED <<scrVars, clockVars, storeVars, bgVars, page, last_page, host,
                 frame, cleared, frames, readAt, seen>>

\* The frame is composed from the four Scrollers and handed to
\* device.display; then s1.tick(); ...; s4.tick() and the frame sleep.
Render_TickFirst ==
  /\ mpc = "render"
  /\ frames < MaxFrames
  /\ s' = [i \in 1..4 |-> tick(s[i])]
  /\ frame' = [page |-> page, flipped |-> frame.page # page, lines |-> s']
  /\ frames' = frames + 1
  /\ mpc' = "page"
  /\ UNCHANGED <<scrVars, clockVars, storeVars, bgVars, page, last_page, host,
                 cleared, obs, readAt, seen>>

Render ==
  /\ mpc = "render"
  /\ frames < MaxFrames
  /\ frame' = [page |-> page, flipped |-> frame.page # page, lines |-> s]
  /\ s' = [i \in 1..4 |-> tick(s[i])]
  /\ frames' = frames + 1
  /\ mpc' = "page"
  /\ UNCHANGED <<scrVars, clockVars, storeVars, bgVars, page, last_page, host,
                 cleared, obs, readAt, seen>>

\* The memory of a process that has ended.
Released ==
  /\ bpc' = "unstarted"
  /\ lock' = "free"
  /\ data' = EmptyDict
  /\ new' = EmptyDict
  /\ upd' = 1
  /\ s' = [i \in 1..4 |-> ScrollerNew]
  /\ page' = -1
  /\ last_page' = -1
  /\ host' = << >>
  /\ frames' = 0
  /\ refreshes' = 0
  /\ ver' = NoVersions
  /\ committed' = 0
  /\ obs' = NoObs
  /\ tried' = NotTried
  /\ atWake' = EmptyDict
  /\ readAt' = -1
  /\ seen' = <<0, 0>>

\* KeyboardInterrupt inside the try block of main
\* (device.clear(), the goodbye line, and the process ends: the daemon thread
\* and the memory of the process go with it; the device keeps what it shows).
Interrupt ==
  /\ mpc \in LoopPcs
  /\ cleared' = TRUE
  /\ mpc' = "exited"
  /\ Released
  /\ UNCHANGED <<scrVars, clockVars, frame>>

\* device.display(image) raises (the I2C write fails): nothing in main catches
\* it, the traceback ends the process and the device keeps what it shows.
DisplayError ==
  /\ mpc = "render"
  /\ mpc' = "failed"
  /\ Released
  /\ UNCHANGED <<scrVars, clockVars, frame, cleared>>

\* KeyboardInterrupt before main has entered its try block
InterruptEarly ==
  /\ mpc \in {"construct", "setup"}
  /\ mpc' = "killed"
  /\ UNCHANGED <<scrVars, clockVars, storeVars, bgVars, s, page, last_page,
                 host, frame, cleared, frames, obs, readAt, seen>>

\* ------------------------------------------------------------------------
\* Specifications
\* ------------------------------------------------------------------------
MainInit ==
  /\ now = 49
  /\ mpc = "construct"
  /\ bpc = "unstarted"
  /\ lock = "free"
  /\ data = EmptyDict
  /\ new = EmptyDict
  /\ upd = 1
  /\ s = [i \in 1..4 |-> ScrollerNew]
  /\ page = -1
  /\ last_page = -1
  /\ host = << >>
  /\ frame = NoFrame
  /\ cleared = FALSE
  /\ frames = 0
  /\ refreshes = 0
  /\ ver = NoVersions
  /\ committed = 0
  /\ obs = NoObs
  /\ tried = NotTried
  /\ atWake = EmptyDict
  /\ readAt = -1
  /\ seen = <<0, 0>>

Init == ScrInit /\ MainInit

Next ==
  \/ Advance
  \/ Construct
  \/ Setup
  \/ BgWake
  \/ BgCollect
  \/ BgAcquire
  \/ BgUpdate
  \/ BgRelease
  \/ MainPage
  \/ MainLine1
  \/ MainLine2Host
  \/ MainLine2Ram
  \/ MainLine3
  \/ MainLine4
  \/ Render
  \/ DisplayError
  \/ Interrupt
  \/ InterruptEarly

Spec == Init /\ [][Next]_vars

ScrollerSpec == Init /\ [][ScrNext]_vars

\* ------------------------------------------------------------------------
\* Properties
\* ------------------------------------------------------------------------
CeilDiv(a, b) == (a + b - 1) \div b

\* tick() calls one loop of a scrolling text takes
Period(sc) == CeilDiv(sc.width + SCROLL_GAP, SCROLL_SPEED)

InTick == mpc \in {"line1", "line2h", "line2r", "line3", "line4", "render"}

\* C1. After any sequence of set, reset and tick calls the offset of a
\* Scroller is at least 0 and less than width + SCROLL_GAP, where width is
\* the measured pixel width of the text it holds.
C1_OffsetInRange ==
  /\ scr.width = text_px_width(scr.text, scr.font)
  /\ 0 <= scr.offset
  /\ scr.offset < scr.width + SCROLL_GAP

\* A scrolling text one tick before its wrap.
C1_Witness ==
  /\ op.name = "tick"
  /\ scr.scrolling
  /\ scr.offset = scr.width + SCROLL_GAP - 1

\* C2. On a tick whose page differs from the page of the tick before (the
\* first tick included), lines 3 and 4 are at offset 0 from the reset until
\* the frame is composed, and the frame displayed on that tick shows them
\* at offset 0: tick() only runs after the frame has been handed over.
C2_FlipFrameUnscrolled ==
  /\ frame.flipped =>
       (frame.lines[3].offset = 0 /\ frame.lines[4].offset = 0)
  /\ (InTick /\ page # frame.page) => (s[3].offset = 0 /\ s[4].offset = 0)

\* A flip other than the first tick's, to a page whose line 4 scrolls.
C2_Witness ==
  /\ frames >= 2
  /\ frame.flipped
  /\ frame.lines[4].scrolling
  /\ s[4].offset > 0

\* C3. A get of the render loop that runs while a refresh is in progress
\* never sees the stored map with only some keys replaced, and returns the
\* value of the last update that has completed: the one before the refresh
\* in progress, or that refresh's own once it has stored all keys.
C3_GetNeverTorn ==
  (obs.n = 1 /\ obs.during) => (~obs.torn /\ obs.settled)

\* The refresh is half way through its update, and the render loop's last
\* get ran while this refresh was in progress.
C3_Witness ==
  /\ obs.n = 1
  /\ obs.during
  /\ bpc = "update"
  /\ upd = 4
  /\ Torn

\* C4. Once the DataStore is constructed, the stored map holds a value for
\* each of the six keys in every state, during and after every later
\* refresh, failed or not, and no get of the render loop finds a key
\* missing.
C4_AllKeysStored ==
  (mpc = "setup" \/ mpc \in LoopPcs) =>
    /\ DOMAIN data = Keys
    /\ \A k \in Keys : DataGet(k) = data[k] /\ data[k] # RAISE
    /\ ~obs.missing

\* A get after a periodic refresh that failed.
C4_Witness ==
  /\ tried.outcome = "raised"
  /\ obs.n = 1
  /\ ~obs.during
  /\ obs.key = "disk"
  /\ refreshes >= 1

\* C5. When a periodic refresh raises, the stored map is what it was when
\* that refresh began, the refresh thread is back in its loop (asleep, or
\* collecting again), the next refresh can start, and a next refresh that
\* succeeds stores what it collected.
C5_RefreshErrorKeepsCache ==
  /\ tried.outcome = "raised" => bpc \in {"sleep", "collect"}
  /\ (tried.outcome = "raised" /\ bpc = "sleep") =>
       /\ data = atWake
       /\ \A k \in Keys : ver[k] = committed
       /\ refreshes < MaxRefresh => ENABLED BgWake
  /\ (tried.retry /\ tried.outcome = "stored") =>
       \A k \in Keys : data[k] = Collect(tried.host)[k]

\* A refresh raised, and the one after it has changed the stored map.
C5_Witness ==
  /\ tried.retry
  /\ tried.outcome = "stored"
  /\ data # atWake

\* C6. No failure of a single collector, at the initial refresh or later,
\* ends the process.
C6_CollectorFailureNeverFatal == mpc # "crashed"

\* C7. After a refresh in which a collector failed, the stored value of
\* every metric whose collector did not fail is the one just collected.
C7_OtherMetricsStillRefreshed ==
  (bpc = "sleep" /\ tried.outcome \in {"raised", "stored"}) =>
    \A k \in Keys :
      Collect(tried.host)[k] # RAISE => data[k] = Collect(tried.host)[k]

\* C8. A text whose width is at most DISPLAY_W is not scrolling once set,
\* and tick() leaves its Scroller as it was, at offset 0.
C8_StaticNeverMoves ==
  /\ text_px_width(scr.text, scr.font) <= DISPLAY_W =>
       (~scr.scrolling /\ scr.offset = 0)
  /\ (op.name = "tick" /\ prev.width <= DISPLAY_W) => scr = prev

\* tick() on a text exactly DISPLAY_W wide.
C8_Witness ==
  /\ op.name = "tick"
  /\ prev.text # << >>
  /\ prev.width = DISPLAY_W

\* C9. A text wider than DISPLAY_W scrolls; counting tick() calls from
\* offset 0, the offset is the distance covered and is not 0 before
\* ceil((width + SCROLL_GAP) / SCROLL_SPEED) calls, and is 0 after exactly
\* that many: 168 calls for a text of 140 pixels.
C9_LoopPeriodExact ==
  /\ text_px_width(scr.text, scr.font) > DISPLAY_W => scr.scrolling
  /\ scr.scrolling =>
       /\ run < Period(scr)
       /\ scr.offset = run * SCROLL_SPEED
       /\ run > 0 => scr.offset # 0
       /\ lastLoop # 0 => lastLoop = Period(scr)
  /\ (scr.width = 140 /\ lastLoop # 0) => lastLoop = 168

\* The 140 pixel text has just completed a loop.
C9_Witness ==
  /\ op.name = "tick"
  /\ scr.width = 140
  /\ scr.offset = 0
  /\ lastLoop = 168

\* C10. set with the text and font the Scroller holds changes nothing:
\* offset, text, font, width and classification stay as they were.
C10_SetSameIsNoOp ==
  (op.name = "set" /\ op.text = prev.text /\ op.font = prev.font) =>
    scr = prev

\* set with the held text and font, in the middle of a scroll.
C10_Witness ==
  /\ op.name = "set"
  /\ op.text = prev.text
  /\ op.font = prev.font
  /\ prev.offset > 0
  /\ scr.offset > 0

\* C11. set with a text or a font that differs from the held one puts the
\* offset at 0, stores the new text and font, recomputes the width from them
\* and classifies the line Scrolling exactly when that width exceeds DISPLAY_W.
C11_SetNewStoresAndClassifies ==
  (op.name = "set" /\ (op.text # prev.text \/ op.font # prev.font)) =>
    /\ scr.offset = 0
    /\ scr.text = op.text
    /\ scr.font = op.font
    /\ scr.width = text_px_width(op.text, op.font)
    /\ scr.scrolling = (text_px_width(op.text, op.font) > DISPLAY_W)

\* set of the held text in the other font, in the middle of a scroll, which
\* moves the line from Scrolling to Static.
C11_Witness ==
  /\ op.name = "set"
  /\ op.text = prev.text
  /\ op.font # prev.font
  /\ prev.scrolling
  /\ prev.offset > 0
  /\ ~scr.scrolling
  /\ scr.width < prev.width

\* The page-duration window a clock value lies in, and the first and last
\* clock values of that window (tenths of a second).
Window(t) == t \div (PAGE_FLIP_SEC * 10)

WindowEnds(t) ==
  {Window(t) * PAGE_FLIP_SEC * 10, t, (Window(t) + 1) * PAGE_FLIP_SEC * 10 - 1}

\* C12. The page of a tick is floor(clock / PAGE_FLIP_SEC) mod 2 of the clock
\* value the tick read, whatever last_page, the offsets and the cache hold:
\* two readers of clock values in one page-duration window get the same page,
\* and the page alternates between 0 and 1 from each window to the next.
C12_PageIsWindowParity ==
  /\ InTick => page = Window(readAt) % 2
  /\ \A t \in Instants : \A u \in WindowEnds(t) :
       /\ PageOf(u) = PageOf(t)
       /\ PageOf(u) \in {0, 1}
       /\ PageOf(u + PAGE_FLIP_SEC * 10) # PageOf(u)

\* A tick in the third window, after a frame of the second: page 0 again,
\* with scrollers and a cache that two earlier ticks have left behind.
C12_Witness ==
  /\ InTick
  /\ frames = 2
  /\ Window(readAt) = 2
  /\ page = 0
  /\ frame.page = 1
  /\ committed > 1

\* C13. When the clock crosses one page-duration boundary the loop sees one
\* page transition: the reset of the scrollers of lines 3 and 4 fires on the
\* first tick that reads the clock in the new window and on no later tick of
\* that window (a tick that reads the clock in the window of the tick before
\* it leaves the scrollers and last_page as they are).
C13_OneTransitionPerWindow ==
  [][(mpc = "page" /\ mpc' = "line1" /\ readAt # -1) =>
       /\ (Window(now) = Window(readAt)) =>
            (s' = s /\ last_page' = last_page)
       /\ (Window(now) = Window(readAt) + 1) =>
            /\ last_page' # last_page
            /\ s'[3].offset = 0
            /\ s'[4].offset = 0]_vars

\* Two ticks in the first window (the second one kept the offset of the
\* scrolling line 4), then the first tick of the next window, which reset it.
C13_Witness ==
  /\ mpc = "line1"
  /\ frames = 2
  /\ Window(readAt) = 1
  /\ ~frame.flipped
  /\ frame.lines[4].scrolling
  /\ frame.lines[4].offset = 1
  /\ s[4] = [frame.lines[4] EXCEPT !.offset = 0]

\* C14. The render loop never waits for metric collection: refresh holds the
\* cache lock only while it writes values it has already collected, never
\* while a collector runs, so a get that is due while refresh collects can
\* return at once; and whoever holds the lock can go on to release it.
C14_LockOnlyWhileWriting ==
  /\ lock \in {"free", "bg"}
  /\ lock = "bg" <=> bpc \in {"update", "release"}
  /\ bpc = "collect" => lock = "free"
  /\ (bpc \in {"sleep", "collect", "acquire"} /\ mpc = "line1") =>
       ENABLED MainLine1
  /\ (bpc \in {"sleep", "collect", "acquire"} /\ mpc = "line2h") =>
       ENABLED MainLine2Host
  /\ (bpc \in {"sleep", "collect", "acquire"} /\ mpc = "line2r") =>
       ENABLED MainLine2Ram
  /\ (bpc \in {"sleep", "collect", "acquire"} /\ mpc = "line3") =>
       ENABLED MainLine3
  /\ (bpc \in {"sleep", "collect", "acquire"} /\ mpc = "line4") =>
       ENABLED MainLine4
  /\ bpc = "update" => ENABLED BgUpdate
  /\ bpc = "release" => ENABLED BgRelease

\* A get of hostname has returned while refresh was collecting, and the get
\* of ram is due with the collectors still running.
C14_Witness ==
  /\ mpc = "line2r"
  /\ obs.key = "hostname"
  /\ obs.during
  /\ bpc = "collect"
  /\ lock = "free"
  /\ ENABLED MainLine2Ram

\* C15. Whenever the process ends because of a user interrupt the display
\* has been cleared before the exit and no frame is shown after that clear,
\* and a user interrupt is the only way the render loop ends.
C15_InterruptClearsAndOnlyInterruptEnds ==
  /\ mpc \in {"killed", "exited"} => cleared
  /\ mpc # "failed"
  /\ cleared => mpc = "exited"

\* C16. On every tick the texts are chosen by the page: on page 0 line 3 is
\* the cached cpu value and line 4 the cached network value; on page 1 line 3
\* is the cached disk value and line 4 the wall-clock time read at that very
\* step; lines 1 and 2 are made of the cached ip, hostname and ram values on
\* either page.
C16_LinesFollowPage ==
  [][/\ (mpc = "line1" /\ mpc' = "line2h") =>
          s'[1].text = <<"IP:">> \o data["ip"]
     /\ (mpc = "line2h" /\ mpc' = "line2r") =>
          host' = data["hostname"]
     /\ (mpc = "line2r" /\ mpc' = "line3") =>
          s'[2].text = host \o <<"  ">> \o data["ram"]
     /\ (mpc = "line3" /\ mpc' = "line4") =>
          s'[3].text = IF page = 0 THEN data["cpu"] ELSE data["disk"]
     /\ (mpc = "line4" /\ mpc' = "render") =>
          s'[4].text = IF page = 0 THEN data["network"] ELSE get_time(now)
    ]_vars

\* A page-1 tick whose page was computed at 5.1 s and whose line 4 was set
\* at 10.1 s: the line shows the later reading.
C16_Witness ==
  /\ mpc = "render"
  /\ page = 1
  /\ readAt = 51
  /\ now = 101
  /\ s[4].text = get_time(101)
  /\ s[3].text = data["disk"]

\* C17. Within one render tick all the cached values read (hostname and ram
\* of line 2, and those of the other lines) come from the same refresh: no
\* frame is composed from a mix of two snapshots, under any interleaving.
C17_TickReadsOneSnapshot ==
  mpc = "line3" => seen[1] = seen[2]

\* C17, as the code has it. Each of the two values joined into line 2 was
\* stored by a refresh whose update was complete when it was read, and the
\* ram comes from the same refresh as the hostname or from a newer one,
\* never from an older one. The two are of different refreshes when a
\* refresh stores its update between the two gets.
C17_Line2ReadsSettledAscending ==
  /\ mpc = "line2r" => (1 <= seen[1] /\ seen[1] <= committed)
  /\ mpc = "line3" =>
       /\ 1 <= seen[1]
       /\ seen[1] <= seen[2]
       /\ seen[2] <= committed

\* Line 1 and the hostname were read from the first refresh, a refresh then
\* stored an update with another ip, and the ram was read from that one.
C17_Witness ==
  /\ mpc = "line3"
  /\ obs.key = "ram"
  /\ seen = <<1, 2>>
  /\ committed = 2
  /\ s[1].text # <<"IP:">> \o data["ip"]

\* One period of a scrolling line: the text followed by the gap.
Pattern(sc, c) == IF c < sc.width THEN c ELSE Blank

\* C18. In Scrolling state, at every reachable offset the crop window
\* [offset, offset + DISPLAY_W) lies inside the band [0, 2 * (width +
\* SCROLL_GAP)), and column x of the crop shows column (offset + x) mod
\* (width + SCROLL_GAP) of the one-period pattern, so each tick, the one that
\* wraps the offset to 0 included, shifts the picture by SCROLL_SPEED columns
\* without a jump.
C18_CropIsPeriodicWindow ==
  scr.scrolling =>
    LET loop_w == scr.width + SCROLL_GAP
    IN  /\ 0 <= scr.offset
        /\ scr.offset + DISPLAY_W <= 2 * loop_w
        /\ \A x \in 0..(DISPLAY_W - 1) :
             draw_onto(scr)[x] = Pattern(scr, (scr.offset + x) % loop_w)
        /\ (op.name = "tick" /\ prev.scrolling) =>
             \A x \in 0..(DISPLAY_W - 1 - SCROLL_SPEED) :
               draw_onto(scr)[x] = draw_onto(prev)[x + SCROLL_SPEED]

\* The tick that wrapped the offset to 0: the crop before it reached into
\* the second copy of the text.
C18_Witness ==
  /\ op.name = "tick"
  /\ scr.scrolling
  /\ scr.offset = 0
  /\ prev.offset = prev.width + SCROLL_GAP - SCROLL_SPEED
  /\ draw_onto(prev)[DISPLAY_W - 1] = DISPLAY_W - 1 - SCROLL_SPEED

\* C19. A page transition changes nothing but the offsets of the scrollers
\* of lines 3 and 4: they go to 0 while text, font, width and classification
\* stay, and the scrollers of lines 1 and 2 are not touched, so a scrolling
\* line 1 or 2 keeps its offset across the flip.
C19_FlipResetsOnlyPageLines ==
  [][(mpc = "page" /\ mpc' = "line1") =>
       /\ s'[1] = s[1]
       /\ s'[2] = s[2]
       /\ \A i \in {3, 4} :
            s'[i] = [s[i] EXCEPT !.offset = IF page' # last_page
                                            THEN 0
                                            ELSE s[i].offset]]_vars

\* The page step of a flip from page 0 to page 1 has run: line 1 is in the
\* middle of its scroll and line 4 still holds the scrolling text of page 0,
\* back at offset 0.
C19_Witness ==
  /\ mpc = "line1"
  /\ page = 1
  /\ frame.page = 0
  /\ s[1].scrolling
  /\ s[1].offset > 0
  /\ s[1] = [frame.lines[1] EXCEPT !.offset = frame.lines[1].offset + SCROLL_SPEED]
  /\ frame.lines[4].scrolling
  /\ s[4] = [frame.lines[4] EXCEPT !.offset = 0]

\* The rows of the band of line i.
LineY == <<Y_LINE1, Y_LINE2, Y_LINE3, Y_LINE4>>

LineTag == <<"s1", "s2", "s3", "s4">>

BandRows(i) == LineY[i]..(LineY[i] + LINE_HEIGHT - 1)

\* The bands as laid out by the Y positions.
BandsApart ==
  /\ \A i \in 1..4 : \A j \in 1..4 :
       i # j => BandRows(i) \cap BandRows(j) = {}
  /\ \A i \in 1..4 : Y_DIVIDER \notin BandRows(i)
  /\ \A i \in 1..4 : BandRows(i) \subseteq Rows

\* The composed image: divider row whole, each line in its band only.
ComposedApart ==
  /\ \A z \in Zones : Compose[Y_DIVIDER][z] = "divider"
  /\ \A i \in 1..4 : \A r \in Rows : \A z \in Zones :
       Compose[r][z] = LineTag[i] => r \in BandRows(i)
  /\ \A i \in 1..4 : \A r \in BandRows(i) :
       Compose[r]["body"] = LineTag[i]

\* C20. The four line bands, LINE_HEIGHT rows each from Y_LINE1, Y_LINE2,
\* Y_LINE3 and Y_LINE4, are pairwise disjoint, none holds the divider row
\* Y_DIVIDER and all lie in rows [0, DISPLAY_H); in every composed frame the
\* divider row is set over its whole width and the pixels of a line lie in
\* that line's band only.
C20_BandsDisjointDividerWhole ==
  /\ BandsApart
  /\ frame # NoFrame => ComposedApart

\* A displayed frame whose line 4 scrolls: its band reaches its last row in
\* the body, while the page dots cover the corner of the band's last rows.
C20_Witness ==
  /\ frame # NoFrame
  /\ frame.lines[4].scrolling
  /\ Compose[Y_LINE4 + LINE_HEIGHT - 1]["body"] = "s4"
  /\ Compose[Y_LINE4 + LINE_HEIGHT - 1]["corner"] = "dots"
  /\ Compose[Y_LINE2 + LINE_HEIGHT - 1]["corner"] = "s2"

====
